---- MODULE Spec2Model ----
(***************************************************************************)
(* A model of app.py: the FastAPI backend that serves startup, mentor and  *)
(* mentoring-session documents of a MongoDB store to a dashboard.          *)
(*                                                                         *)
(* Values.  Python and BSON values are tagged records [t |-> tag, v |-> _] *)
(* so that values of different types can be told apart:                    *)
(*   null, bool, int, str, oid (ObjectId), date (datetime),                *)
(*   dict (v: a function from keys to values), list (v: a sequence).       *)
(* A document is a function from its keys to values; a key the document    *)
(* lacks is not in its DOMAIN.  The text of a str is a sequence of atoms:  *)
(* a formatted date is spelled character by character (the program sorts   *)
(* on it), any other literal is one atom, since nothing looks inside it.   *)
(***************************************************************************)
EXTENDS Integers, Sequences, FiniteSets, TLC

\* ------------------------------------------------------------------ values

Null == [t |-> "null"]
BoolV(b) == [t |-> "bool", v |-> b]
IntV(n) == [t |-> "int", v |-> n]
StrV(a) == [t |-> "str", v |-> <<a>>]
TextV(chars) == [t |-> "str", v |-> chars]
OidV(hex) == [t |-> "oid", v |-> hex]
DateV(y, mo, d, h, mi, s) ==
    [t |-> "date", v |-> [y |-> y, mo |-> mo, d |-> d, h |-> h, mi |-> mi, s |-> s]]
DictV(f) == [t |-> "dict", v |-> f]
ListV(q) == [t |-> "list", v |-> q]

EmptyDoc == <<>>

\* The mapping with the single key k.
Field(k, val) == [x \in {k} |-> val]

\* The mapping d with key k set to val (doc[key] = val).
Put(d, k, val) == [x \in (DOMAIN d) \cup {k} |-> IF x = k THEN val ELSE d[x]]

\* The union of two mappings with disjoint keys.
Merge(d, e) == [x \in (DOMAIN d) \cup (DOMAIN e) |-> IF x \in DOMAIN d THEN d[x] ELSE e[x]]

\* ------------------------------------------------------- date formatting

Digits == <<"0", "1", "2", "3", "4", "5", "6", "7", "8", "9">>

Digit(n) == Digits[(n % 10) + 1]

\* %m, %d, %H, %M, %S: two digits, zero-padded.
Pad2(n) == <<Digit(n \div 10), Digit(n)>>

\* %Y: four digits, zero-padded.
Pad4(n) == <<Digit(n \div 1000), Digit(n \div 100), Digit(n \div 10), Digit(n)>>

\* The format "%Y-%m-%d %H:%M:%S" applied to a date's fields.
FormatDate(dt) ==
    Pad4(dt.y) \o <<"-">> \o Pad2(dt.mo) \o <<"-">> \o Pad2(dt.d) \o <<" ">>
        \o Pad2(dt.h) \o <<":">> \o Pad2(dt.mi) \o <<":">> \o Pad2(dt.s)

\* ------------------------------------------------------------ Python str/bool

\* The decimal digits of a natural number, without padding.
RECURSIVE Decimal(_)
Decimal(n) == IF n < 10 THEN <<Digit(n)>> ELSE Decimal(n \div 10) \o <<Digit(n)>>

\* str(value) of a scalar: an ObjectId gives its hex text, a str itself.
PyStr(val) ==
    CASE val.t = "oid" -> StrV(val.v)
      [] val.t = "str" -> val
      [] val.t = "int" -> TextV(Decimal(val.v))
      [] val.t = "bool" -> StrV(IF val.v THEN "True" ELSE "False")
      [] val.t = "null" -> StrV("None")

\* Python truthiness, bool(value).
PyBool(val) ==
    CASE val.t = "null" -> FALSE
      [] val.t = "bool" -> val.v
      [] val.t = "int" -> val.v # 0
      [] val.t = "str" -> val.v # <<>>
      [] val.t = "dict" -> DOMAIN val.v # {}
      [] val.t = "list" -> val.v # <<>>
      [] OTHER -> TRUE

\* ------------------------------------------------------------ serialize_doc

SignatureKeys == {"mentorSigned", "startupSigned"}

RECURSIVE serialize_doc(_)

\* A variant that takes signed only when it is the boolean True.
SerializeField_strict(key, value) ==
    CASE value.t = "oid" -> StrV(value.v)
      [] value.t = "date" -> TextV(FormatDate(value.v))
      [] value.t = "dict" ->
            IF key \in SignatureKeys /\ "signed" \in DOMAIN value.v
            THEN BoolV(value.v["signed"] = BoolV(TRUE))
            ELSE DictV(serialize_doc(value.v))
      [] value.t = "list" ->
            ListV([i \in DOMAIN value.v |->
                    IF value.v[i].t = "dict"
                    THEN DictV(serialize_doc(value.v[i].v))
                    ELSE value.v[i]])
      [] OTHER -> value

\* The replacement of one field of a document (the body of the loop).
SerializeField(key, value) ==
    CASE value.t = "oid" -> StrV(value.v)
      [] value.t = "date" -> TextV(FormatDate(value.v))
      [] value.t = "dict" ->
            IF key \in SignatureKeys /\ "signed" \in DOMAIN value.v
            THEN BoolV(PyBool(value.v["signed"]))
            ELSE DictV(serialize_doc(value.v))
      [] value.t = "list" ->
            ListV([i \in DOMAIN value.v |->
                    IF value.v[i].t = "dict"
                    THEN DictV(serialize_doc(value.v[i].v))
                    ELSE value.v[i]])
      [] OTHER -> value

\* The first statement: doc['_id'] = str(doc['_id']) when the key is there.
SerializeId(doc) ==
    IF "_id" \in DOMAIN doc THEN Put(doc, "_id", PyStr(doc["_id"])) ELSE doc

serialize_doc(doc) ==
    LET d1 == SerializeId(doc)
    IN [k \in DOMAIN d1 |-> SerializeField(k, d1[k])]

\* ------------------------------------------------------------------ the store

\* The longest "sessions" collection of the model.
MaxSessions == 2

\* 24-digit hexadecimal texts: the only texts $toObjectId accepts.
HexM1 == "65a000000000000000000001"
HexM2 == "65a000000000000000000002"
HexM3 == "65a000000000000000000003"
HexT1 == "65b000000000000000000001"
HexT2 == "65b000000000000000000002"
HexT3 == "65b000000000000000000003"
HexUnknown == "65c0000000000000000000ff"
HexS == <<"65d000000000000000000001", "65d000000000000000000002",
          "65d000000000000000000003", "65d000000000000000000004">>

ValidHex == {HexM1, HexM2, HexM3, HexT1, HexT2, HexT3, HexUnknown}
                \cup {HexS[i] : i \in DOMAIN HexS}

\* Three instants; D2 is the latest, D3 the earliest.
D1 == DateV(2024, 1, 1, 9, 0, 0)
D2 == DateV(2024, 1, 2, 10, 0, 0)
D3 == DateV(2023, 12, 31, 23, 59, 59)

\* The "mentorship" collection: a mentor with company and name, one with a
\* name only, one with neither.
MentorDocs ==
    << [_id |-> OidV(HexM1), company |-> StrV("Acme"), name |-> StrV("Jane")],
       [_id |-> OidV(HexM2), name |-> StrV("Joan")],
       [_id |-> OidV(HexM3), email |-> StrV("m3@example.org")] >>

\* The "startup" collection: a startup with name and company, one with a
\* company only, one with neither.
StartupDocs ==
    << [_id |-> OidV(HexT1), name |-> StrV("Rocket"), company |-> StrV("RocketCo"),
        founded |-> D3, team |-> ListV(<<DictV([member |-> OidV(HexM1)])>>)],
       [_id |-> OidV(HexT2), company |-> StrV("OrbitCo")],
       [_id |-> OidV(HexT3), sector |-> StrV("space")] >>

MentorCollections == {<<>>, MentorDocs}
StartupCollections == {<<>>, StartupDocs}

\* Session documents, without their _id.
SessionFull ==
    [mentor |-> StrV(HexM1), startup |-> StrV(HexT1), date |-> D2,
     topic |-> StrV("Pricing"), duration |-> IntV(60), summary |-> StrV("ok"),
     status |-> StrV("signed"), comments |-> ListV(<<StrV("good"), StrV("again")>>),
     pdfUrl |-> StrV("https://example.org/1.pdf"),
     mentorSigned |-> DictV([signed |-> BoolV(TRUE), extra |-> StrV("x")]),
     startupSigned |-> DictV([signed |-> BoolV(FALSE)])]

SessionNameOnly ==
    [mentor |-> StrV(HexM2), startup |-> StrV(HexT2), date |-> D1,
     topic |-> StrV("Hiring"), startupSigned |-> DictV([signed |-> BoolV(TRUE)])]

SessionNoNames ==
    [mentor |-> StrV(HexM3), startup |-> StrV(HexT3), date |-> D3,
     mentorSigned |-> DictV([at |-> D3]), comments |-> Null, pdfUrl |-> Null]

SessionBare == [date |-> D1]

SessionNoDate ==
    [mentor |-> OidV(HexM1), startup |-> StrV(HexUnknown), status |-> StrV("pending"),
     mentorSigned |-> BoolV(TRUE)]

SessionBadMentor == [mentor |-> StrV("not-an-id"), startup |-> StrV(HexT1), date |-> D2]

SessionBadStartup == [mentor |-> StrV(HexM1), startup |-> StrV("n/a"), date |-> D3]

SessionBadDuration ==
    [mentor |-> StrV(HexM2), startup |-> StrV(HexT1), date |-> D2, duration |-> StrV("abc")]

SessionTextDate == [mentor |-> StrV(HexM1), date |-> StrV("2024-01-01")]

SessionShapes ==
    {SessionFull, SessionNameOnly, SessionNoNames, SessionBare, SessionNoDate,
     SessionBadMentor, SessionBadStartup, SessionBadDuration, SessionTextDate}

\* The "sessions" collections: each document gets the _id of its position.
SessionCollections ==
    UNION {{[i \in 1..n |-> Put(shapes[i], "_id", OidV(HexS[i]))] :
                shapes \in [1..n -> SessionShapes]} : n \in 0..MaxSessions}

Stores ==
    [sessions : SessionCollections, mentorship : MentorCollections,
     startup : StartupCollections]

\* ------------------------------------------------- aggregation expressions

\* The value of a path that names no field of the document.
Missing == [t |-> "missing"]

\* An expression or a validation that raises; it fails the whole operation.
Failure == [t |-> "error"]

IsNullish(val) == val.t \in {"null", "missing"}

\* "$field"
PathOf(doc, k) == IF k \in DOMAIN doc THEN doc[k] ELSE Missing

\* "$field.sub": missing unless the field is a document that has the key.
SubPath(val, k) == IF val.t = "dict" /\ k \in DOMAIN val.v THEN val.v[k] ELSE Missing

\* $toObjectId: null for a null or missing input, the ObjectId of a 24-digit
\* hexadecimal text, and an error for any other input (no onError is given).
ToObjectId(val) ==
    CASE IsNullish(val) -> Null
      [] val.t = "oid" -> val
      [] val.t = "str" ->
            IF Len(val.v) = 1 /\ val.v[1] \in ValidHex THEN OidV(val.v[1]) ELSE Failure
      [] OTHER -> Failure

\* $toString
ToStringOp(val) ==
    CASE IsNullish(val) -> Null
      [] val.t = "dict" -> Failure
      [] val.t = "list" -> Failure
      [] val.t = "date" -> TextV(FormatDate(val.v))
      [] OTHER -> PyStr(val)

\* $ifNull with one or more inputs and a replacement, the last element.
RECURSIVE IfNull(_)
IfNull(args) ==
    IF Len(args) = 1 \/ ~IsNullish(Head(args)) THEN Head(args) ELSE IfNull(Tail(args))

\* $dateToString with format "%Y-%m-%d %H:%M:%S": null for a null or missing
\* date, an error for a value that is not a date.
DateToString(val) ==
    CASE IsNullish(val) -> Null
      [] val.t = "date" -> TextV(FormatDate(val.v))
      [] OTHER -> Failure

MentorFallback == StrV("Compañía Mentor Desconocida")
StartupFallback == StrV("Startup Desconocida")

\* -------------------------------------------------------- pipeline stages

RECURSIVE Flatten(_)
Flatten(qs) == IF qs = <<>> THEN <<>> ELSE Head(qs) \o Flatten(Tail(qs))

\* $addFields {dst: {$toObjectId: "$src"}}
AddObjectIdStage(docs, src, dst) ==
    [i \in DOMAIN docs |-> Put(docs[i], dst, ToObjectId(PathOf(docs[i], src)))]

\* $lookup on local = foreign _id, then $unwind with
\* preserveNullAndEmptyArrays: a document without a match is kept as it is.
LookupUnwindStage(docs, coll, local, as) ==
    Flatten([i \in DOMAIN docs |->
        LET key == PathOf(docs[i], local)
            found == SelectSeq(coll, LAMBDA m : ~IsNullish(key) /\ m["_id"] = key)
        IN IF found = <<>> THEN <<docs[i]>>
           ELSE [j \in DOMAIN found |-> Put(docs[i], as, DictV(found[j]))]])

\* A variant with the startup's order: name before company.
MentorDisplayName_nameFirst(mi) ==
    IfNull(<<SubPath(mi, "name"), SubPath(mi, "company"), MentorFallback>>)

\* The mentor's company, else the mentor's name, else the label.
MentorDisplayName(mi) ==
    IfNull(<<SubPath(mi, "company"), SubPath(mi, "name"), MentorFallback>>)

\* The startup's name, else the startup's company, else the label.
StartupDisplayName(si) ==
    IfNull(<<SubPath(si, "name"), SubPath(si, "company"), StartupFallback>>)

CopiedFields == {"topic", "duration", "summary", "status"}

\* $project: a field copied by "$field" is left out when the document lacks it.
ProjectStage(doc) ==
    LET mi == PathOf(doc, "mentor_info")
        si == PathOf(doc, "startup_info")
        computed ==
            [_id |-> ToStringOp(PathOf(doc, "_id")),
             mentor_id |-> ToStringOp(IfNull(<<SubPath(mi, "_id"), Null>>)),
             CompanyName |-> MentorDisplayName(mi),
             startup_id |-> ToStringOp(IfNull(<<SubPath(si, "_id"), Null>>)),
             startup_company |-> StartupDisplayName(si),
             date |-> DateToString(PathOf(doc, "date")),
             comments |-> IfNull(<<PathOf(doc, "comments"), ListV(<<>>)>>),
             pdfUrl |-> IfNull(<<PathOf(doc, "pdfUrl"), Null>>),
             mentorSigned |->
                 IfNull(<<SubPath(PathOf(doc, "mentorSigned"), "signed"), BoolV(FALSE)>>),
             startupSigned |->
                 IfNull(<<SubPath(PathOf(doc, "startupSigned"), "signed"), BoolV(FALSE)>>)]
        copied == [k \in CopiedFields \cap DOMAIN doc |-> doc[k]]
    IN Merge(computed, copied)

\* The characters of a formatted date, in byte order.
Alphabet == <<" ", "-", "0", "1", "2", "3", "4", "5", "6", "7", "8", "9", ":">>

CharRank(c) == CHOOSE i \in DOMAIN Alphabet : Alphabet[i] = c

\* a < b for two texts, compared character by character.
RECURSIVE LexLess(_, _)
LexLess(a, b) ==
    IF b = <<>> THEN FALSE
    ELSE IF a = <<>> THEN TRUE
    ELSE IF Head(a) = Head(b) THEN LexLess(Tail(a), Tail(b))
    ELSE CharRank(Head(a)) < CharRank(Head(b))

\* The order of $sort on the projected date, which is null or a text: null
\* sorts before every text.
SortKeyLess(x, y) ==
    IF x.t = "null" THEN y.t # "null"
    ELSE y.t # "null" /\ LexLess(x.v, y.v)

Orders(n) == {p \in [1..n -> 1..n] : \A i, j \in 1..n : p[i] = p[j] => i = j}

\* A variant that sorts ascending, $sort {date: 1}.
SortStage_ascending(docs) ==
    {[i \in DOMAIN docs |-> docs[p[i]]] : p \in
        {q \in Orders(Len(docs)) :
            \A i, j \in DOMAIN docs :
                i < j => ~SortKeyLess(docs[q[j]]["date"], docs[q[i]]["date"])}}

\* $sort {date: -1}: every order of the documents in which no document is
\* followed by one with a greater date; the order of equal dates is not fixed.
SortStage(docs) ==
    {[i \in DOMAIN docs |-> docs[p[i]]] : p \in
        {q \in Orders(Len(docs)) :
            \A i, j \in DOMAIN docs :
                i < j => ~SortKeyLess(docs[q[i]]["date"], docs[q[j]]["date"])}}

\* db["sessions"].aggregate(pipeline): the results the store may return, or
\* the one failed result when an expression of the pipeline raises.
Aggregate(st) ==
    LET s1 == AddObjectIdStage(st.sessions, "mentor", "mentorObjectId")
        s2 == LookupUnwindStage(s1, st.mentorship, "mentorObjectId", "mentor_info")
        s3 == AddObjectIdStage(s2, "startup", "startupObjectId")
        s4 == LookupUnwindStage(s3, st.startup, "startupObjectId", "startup_info")
        s5 == [i \in DOMAIN s4 |-> ProjectStage(s4[i])]
    IN IF \/ \E i \in DOMAIN s1 : s1[i]["mentorObjectId"] = Failure
          \/ \E i \in DOMAIN s3 : s3[i]["startupObjectId"] = Failure
          \/ \E i \in DOMAIN s5 : \E k \in DOMAIN s5[i] : s5[i][k] = Failure
       THEN {[ok |-> FALSE, docs |-> <<>>]}
       ELSE {[ok |-> TRUE, docs |-> sorted] : sorted \in SortStage(s5)}

\* --------------------------------------------------------- SessionDetails

\* The fields of the response model, in their order.  The annotation
\* "_id: str" starts with an underscore, so pydantic makes no field of it.
ModelFields ==
    <<"mentor_id", "CompanyName", "startup_id", "startup_company", "date", "topic",
      "duration", "summary", "status", "comments", "pdfUrl", "mentorSigned",
      "startupSigned">>

FieldNames == {ModelFields[i] : i \in DOMAIN ModelFields}

FieldType(f) ==
    CASE f = "duration" -> "int"
      [] f = "comments" -> "list"
      [] f \in {"mentorSigned", "startupSigned"} -> "bool"
      [] OTHER -> "str"

\* Whether a value validates as Optional[type].  Only the cases on which the
\* versions of pydantic agree are used: a value of the type or None
\* validates, a text that is no number does not validate as int.
Validates(type, val) ==
    \/ val.t = "null"
    \/ type \in {"str", "int", "bool"} /\ val.t = type
    \/ type = "list" /\ val.t = "list" /\ \A i \in DOMAIN val.v : val.v[i].t = "str"

\* SessionDetails(**doc): a key that is no field is ignored, a field without
\* a key takes its default None, a value of the wrong type raises.
SessionDetails(doc) ==
    IF \A f \in FieldNames \cap DOMAIN doc : Validates(FieldType(f), doc[f])
    THEN [f \in FieldNames |-> IF f \in DOMAIN doc THEN doc[f] ELSE Null]
    ELSE Failure

\* -------------------------------------------------------------- responses

Return(body) == [kind |-> "return", status |-> 200, body |-> body]
HttpError(status) == [kind |-> "http", status |-> status, body |-> <<>>]
Raised == [kind |-> "raise", status |-> 0, body |-> <<>>]

\* What a call did: its outcome and the store queries it invoked.
Call(out, queried) == [out |-> out, queried |-> queried]

\* A variant that reports any exception as store unavailability.
CatchAll_unavailable(out) == IF out.kind = "raise" THEN HttpError(503) ELSE out

\* The two handlers of a collection: an HTTPException is raised again, any
\* other exception becomes a 500.
CatchAll(out) == IF out.kind = "raise" THEN HttpError(500) ELSE out

\* ------------------------------------------------------------------ state

VARIABLES
    phase,      \* "new" before the startup event, "serving", "stopped" after shutdown
    db,         \* the global db: "None" or "set" (client["Cluster0"])
    client,     \* the global client: "None", "open" or "closed"
    alive,      \* whether the store can be reached (the environment)
    store,      \* the three collections of the store
    last,       \* the last request: endpoint, response, the store queries
                \* it invoked (<<operation, collection>>), whether the store answered
    doc,        \* serialize_doc alone: the document given
    out,        \* serialize_doc alone: the document returned
    serialized  \* serialize_doc alone: whether it has run

vars == <<phase, db, client, alive, store, last, doc, out, serialized>>
serverVars == <<phase, db, client, alive, store, last>>
serializeVars == <<doc, out, serialized>>

NoRequest ==
    [endpoint |-> "none", status |-> 0, body |-> <<>>, queried |-> {}, up |-> FALSE]

\* ---------------------------------------------------------------- handlers

\* A variant without the check of db.
get_collection_data_unchecked(name, up) ==
    IF ~up THEN Call(Raised, {<<"find", name>>})
    ELSE Call(Return([i \in DOMAIN store[name] |-> serialize_doc(store[name][i])]),
              {<<"find", name>>})

\* get_collection_data(collection_name); up: whether the store answers.
get_collection_data(name, up) ==
    IF db = "None" THEN Call(HttpError(503), {})
    ELSE IF ~up THEN Call(Raised, {<<"find", name>>})
    ELSE Call(Return([i \in DOMAIN store[name] |-> serialize_doc(store[name][i])]),
              {<<"find", name>>})

get_all_startups(up) ==
    LET c == get_collection_data("startup", up) IN Call(CatchAll(c.out), c.queried)

get_all_mentors(up) ==
    LET c == get_collection_data("mentorship", up) IN Call(CatchAll(c.out), c.queried)

\* A variant that keeps the records that validate and drops the others.
ValidateAll_partial(result) ==
    LET models == [i \in DOMAIN result.docs |-> SessionDetails(result.docs[i])]
    IN IF ~result.ok THEN HttpError(500)
       ELSE Return(SelectSeq(models, LAMBDA m : m # Failure))

\* The try block of get_all_sessions_detailed on one result of the store.
ValidateAll(result) ==
    LET models == [i \in DOMAIN result.docs |-> SessionDetails(result.docs[i])]
    IN IF ~result.ok \/ \E i \in DOMAIN models : models[i] = Failure
       THEN HttpError(500)
       ELSE Return(models)

\* get_all_sessions_detailed(): the calls it may make.
get_all_sessions_detailed(up) ==
    IF db = "None" THEN {Call(HttpError(503), {})}
    ELSE IF ~up THEN {Call(HttpError(500), {<<"aggregate", "sessions">>})}
    ELSE {Call(ValidateAll(r), {<<"aggregate", "sessions">>}) : r \in Aggregate(store)}

DroppedColumns == {"_id", "mentor_id", "startup_id"}

Rename(col) ==
    CASE col = "CompanyName" -> "Compañía Mentor"
      [] col = "startup_company" -> "Compañía Startup"
      [] col = "date" -> "Fecha"
      [] col = "topic" -> "Tema"
      [] col = "duration" -> "Duración (min)"
      [] col = "summary" -> "Resumen"
      [] col = "status" -> "Estado"
      [] col = "comments" -> "Comentarios"
      [] col = "pdfUrl" -> "URL Documento"
      [] col = "mentorSigned" -> "Mentor Firmó"
      [] col = "startupSigned" -> "Startup Firmó"
      [] OTHER -> col

\* ', '.join(x)
RECURSIVE Join(_)
Join(texts) ==
    IF texts = <<>> THEN <<>>
    ELSE IF Len(texts) = 1 THEN texts[1].v
    ELSE texts[1].v \o <<", ">> \o Join(Tail(texts))

\* The sheet written from the models: the DataFrame of their dicts with the
\* identifier columns dropped, the columns renamed and the comments joined.
Spreadsheet(models) ==
    LET kept == SelectSeq(ModelFields, LAMBDA c : c \notin DroppedColumns)
        Cell(m, c) == IF c = "comments" /\ m[c].t = "list" THEN TextV(Join(m[c].v)) ELSE m[c]
    IN [sheet |-> "Sesiones",
        header |-> [i \in DOMAIN kept |-> Rename(kept[i])],
        rows |-> [r \in DOMAIN models |-> [i \in DOMAIN kept |-> Cell(models[r], kept[i])]]]

\* A variant without the check for an empty list.
ExcelOutcome_emptySheet(detailed) ==
    IF detailed.kind # "return" THEN detailed ELSE Return(Spreadsheet(detailed.body))

\* The body of download_sessions_excel after a call of the detailed handler.
ExcelOutcome(detailed) ==
    IF detailed.kind # "return" THEN detailed
    ELSE IF detailed.body = <<>> THEN HttpError(404)
    ELSE Return(Spreadsheet(detailed.body))

download_sessions_excel(up) ==
    IF db = "None" THEN {Call(HttpError(503), {})}
    ELSE {Call(ExcelOutcome(c.out), c.queried) : c \in get_all_sessions_detailed(up)}

\* ----------------------------------------------------------------- actions

Init ==
    /\ phase = "new"
    /\ db = "None"
    /\ client = "None"
    /\ alive \in BOOLEAN
    /\ store \in Stores
    /\ last = NoRequest
    /\ doc = EmptyDoc
    /\ out = EmptyDoc
    /\ serialized = FALSE

\* startup_db_client: the handle is set only when DATABASE_URL is there and
\* the ping is answered; any exception leaves client and db None.
Startup ==
    /\ phase = "new"
    /\ \E url \in BOOLEAN :
          IF url /\ alive
          THEN client' = "open" /\ db' = "set"
          ELSE client' = "None" /\ db' = "None"
    /\ phase' = "serving"
    /\ UNCHANGED <<alive, store, last>>
    /\ UNCHANGED serializeVars

\* shutdown_db_client: the client is closed; db is left as it is.
Shutdown ==
    /\ phase = "serving"
    /\ phase' = "stopped"
    /\ client' = IF client = "None" THEN "None" ELSE "closed"
    /\ UNCHANGED <<db, alive, store, last>>
    /\ UNCHANGED serializeVars

\* The environment: the store drops out of reach, or comes back.
ConnectionLost ==
    /\ alive
    /\ alive' = FALSE
    /\ UNCHANGED <<phase, db, client, store, last>>
    /\ UNCHANGED serializeVars

ConnectionRestored ==
    /\ ~alive
    /\ alive' = TRUE
    /\ UNCHANGED <<phase, db, client, store, last>>
    /\ UNCHANGED serializeVars

\* Whether the store answers a query of this request.  A closed client
\* raises or reconnects, by the driver's version.
Ups == IF client = "open" THEN {alive} ELSE IF client = "closed" THEN {alive, FALSE} ELSE {FALSE}

\* One request: the response of the call and the queries it invoked.
Respond(endpoint, c, up) ==
    /\ last' = [endpoint |-> endpoint, status |-> c.out.status, body |-> c.out.body,
                queried |-> c.queried, up |-> up]
    /\ UNCHANGED <<phase, db, client, alive, store>>
    /\ UNCHANGED serializeVars

GetStartups ==
    /\ phase # "new"
    /\ \E up \in Ups : Respond("/api/startups", get_all_startups(up), up)

GetMentors ==
    /\ phase # "new"
    /\ \E up \in Ups : Respond("/api/mentors", get_all_mentors(up), up)

GetSessionsDetailed ==
    /\ phase # "new"
    /\ \E up \in Ups : \E c \in get_all_sessions_detailed(up) :
          Respond("/api/sessions/detailed", c, up)

DownloadSessionsExcel ==
    /\ phase # "new"
    /\ \E up \in Ups : \E c \in download_sessions_excel(up) :
          Respond("/api/sessions/download_excel", c, up)

Next ==
    \/ Startup
    \/ ConnectionLost
    \/ ConnectionRestored
    \/ Shutdown
    \/ GetStartups
    \/ GetMentors
    \/ GetSessionsDetailed
    \/ DownloadSessionsExcel

Spec == Init /\ [][Next]_vars

\* ------------------------------------------------------ serialize_doc alone

\* The longest list of a document given to serialize_doc.
MaxLen == 2

MapsOver(keys, values) == UNION {[ks -> values] : ks \in SUBSET keys}

ListsOver(values) == UNION {[1..n -> values] : n \in 0..MaxLen}

Scalars ==
    {OidV(HexM1), StrV("yes"), TextV(<<>>), BoolV(TRUE), BoolV(FALSE), IntV(0), IntV(7),
     Null, D1}

Leaves == {OidV(HexM2), StrV("x")}

\* Values one level down: a leaf, a mapping of leaves, a list of leaves.
Inner ==
    Leaves \cup {DictV(f) : f \in MapsOver({"ref"}, Leaves)}
           \cup {ListV(q) : q \in ListsOver(Leaves)}

\* The values of a field: a scalar, a mapping with or without a signed key,
\* a list of inner values.
FieldValues ==
    Scalars
        \cup {DictV(Merge(sg, rf)) :
                sg \in MapsOver({"signed"}, Scalars), rf \in MapsOver({"ref"}, Inner)}
        \cup {ListV(q) : q \in ListsOver(Inner)}

IdValues == {OidV(HexT1), StrV("abc"), IntV(42)}

\* The documents given: one field, with or without an _id.
Documents ==
    {Merge(f, id) :
        f \in UNION {[{k} -> FieldValues] : k \in {"mentorSigned", "startupSigned", "owner"}},
        id \in MapsOver({"_id"}, IdValues)}

InitSerialize ==
    /\ phase = "new"
    /\ db = "None"
    /\ client = "None"
    /\ alive = FALSE
    /\ store = [sessions |-> <<>>, mentorship |-> <<>>, startup |-> <<>>]
    /\ last = NoRequest
    /\ doc \in Documents
    /\ out = EmptyDoc
    /\ serialized = FALSE

Serialize ==
    /\ ~serialized
    /\ out' = serialize_doc(doc)
    /\ serialized' = TRUE
    /\ UNCHANGED doc
    /\ UNCHANGED serverVars

NextSerialize == Serialize

SpecSerialize == InitSerialize /\ [][NextSerialize]_vars

\* ============================================================ properties
\* ---------------------------------------------------------- serialize_doc

RECURSIVE HasRawOid(_)
\* Whether an ObjectId is the value, or is somewhere inside the value.
HasRawOid(val) ==
    CASE val.t = "oid" -> TRUE
      [] val.t = "dict" -> \E k \in DOMAIN val.v : HasRawOid(val.v[k])
      [] val.t = "list" -> \E i \in DOMAIN val.v : HasRawOid(val.v[i])
      [] OTHER -> FALSE

\* C4: after serialize_doc no ObjectId remains at any path of the document,
\* whether it was a field value, inside a nested mapping, an element of a
\* list or inside a mapping of a list.
C4_NoRawIdentifier == serialized => ~HasRawOid(DictV(out))

\* The documents whose signature field is a mapping with a signed key.
SignedFields == {k \in SignatureKeys \cap DOMAIN doc : doc[k].t = "dict" /\ "signed" \in DOMAIN doc[k].v}

\* The fields that hold any other mapping.
OtherMappings == {k \in DOMAIN doc : doc[k].t = "dict" /\ k \notin SignedFields}

\* C10 as stated: the field becomes the value of signed when that is a
\* boolean, and false when signed is not a boolean.
C10_NonBooleanSignedIsFalse ==
    serialized =>
        \A k \in SignedFields :
            out[k] = IF doc[k].v["signed"].t = "bool" THEN doc[k].v["signed"] ELSE BoolV(FALSE)

TruthySigned == {BoolV(TRUE), StrV("yes"), IntV(7), OidV(HexM1), D1}
FalsySigned == {BoolV(FALSE), TextV(<<>>), IntV(0), Null}

\* C10 as amended: the field becomes a boolean, the truth value Python gives
\* signed (true for True, a non-empty text, a non-zero number, an identifier,
\* a date; false for False, an empty text, zero, None), the other keys of
\* the mapping are gone;  any other mapping stays a mapping with the same
\* keys, in which no identifier is left as a value.
C10_SignedIsTruthValue ==
    serialized =>
        /\ \A k \in SignedFields :
              /\ doc[k].v["signed"] \in TruthySigned \cup FalsySigned
              /\ out[k] = BoolV(doc[k].v["signed"] \in TruthySigned)
        /\ \A k \in OtherMappings :
              /\ out[k].t = "dict"
              /\ DOMAIN out[k].v = DOMAIN doc[k].v
              /\ \A j \in DOMAIN doc[k].v :
                    /\ out[k].v[j].t # "oid"
                    /\ doc[k].v[j].t = "oid" => out[k].v[j] = StrV(doc[k].v[j].v)
                    /\ doc[k].v[j].t = "dict" => ~HasRawOid(out[k].v[j])

\* A signature mapping with a non-boolean, non-empty signed and another key
\* has been replaced by true.
C10_Witness ==
    /\ serialized
    /\ "mentorSigned" \in DOMAIN doc
    /\ doc["mentorSigned"].t = "dict"
    /\ DOMAIN doc["mentorSigned"].v = {"signed", "ref"}
    /\ doc["mentorSigned"].v["signed"] = StrV("yes")
    /\ out["mentorSigned"] = BoolV(TRUE)

\* ------------------------------------------------------------- the server

Startups == "/api/startups"
Mentors == "/api/mentors"
Detailed == "/api/sessions/detailed"
Excel == "/api/sessions/download_excel"

Requested == last.endpoint # "none"

\* A reference that is a text but no 24-digit hexadecimal text.
InvalidRef(session, k) ==
    k \in DOMAIN session /\ session[k].t = "str" /\ session[k].v[1] \notin ValidHex

\* A session with a date that is no date or a duration that is no number.
IllTyped(session) ==
    \/ "date" \in DOMAIN session /\ session["date"].t \notin {"date", "null"}
    \/ "duration" \in DOMAIN session /\ session["duration"].t \notin {"int", "null"}

HasInvalidRef(session) == InvalidRef(session, "mentor") \/ InvalidRef(session, "startup")

Sessions == {store.sessions[i] : i \in DOMAIN store.sessions}

\* C1: when startup left db None, every data endpoint answers 503 and the
\* request invokes no find and no aggregate.
C1_NoHandleAnswers503 ==
    (phase # "new" /\ db = "None" /\ Requested) =>
        /\ client = "None"
        /\ last.status = 503
        /\ last.queried = {}

\* The export answered 503 although the store holds sessions and is in reach.
C1_Witness ==
    /\ db = "None"
    /\ alive
    /\ store.sessions # <<>>
    /\ last.endpoint = Excel
    /\ last.status = 503

\* C2: a session whose mentor or startup is no valid identifier is treated
\* as unmatched: the request succeeds and returns every session.
C2_InvalidIdIsNoMatch ==
    (/\ last.endpoint = Detailed
     /\ db = "set"
     /\ last.up
     /\ \E x \in Sessions : HasInvalidRef(x)
     /\ \A x \in Sessions : ~IllTyped(x)) =>
        /\ last.status = 200
        /\ Len(last.body) = Len(store.sessions)

WireKeys ==
    {"_id", "mentor_id", "CompanyName", "startup_id", "startup_company", "date", "topic",
     "duration", "summary", "status", "comments", "pdfUrl", "mentorSigned", "startupSigned"}

\* C3: every record returned by /api/sessions/detailed has exactly the
\* fourteen keys of the wire shape, _id among them.
C3_ExactKeySet ==
    (last.endpoint = Detailed /\ last.status = 200) =>
        \A i \in DOMAIN last.body : DOMAIN last.body[i] = WireKeys

\* The name a mentor document is shown by, and the one of a startup.
MentorShownAs(m) ==
    IF "company" \in DOMAIN m THEN m["company"]
    ELSE IF "name" \in DOMAIN m THEN m["name"] ELSE StrV("Compañía Mentor Desconocida")

StartupShownAs(m) ==
    IF "name" \in DOMAIN m THEN m["name"]
    ELSE IF "company" \in DOMAIN m THEN m["company"] ELSE StrV("Startup Desconocida")

\* The identifier a reference names, as text; "" when it names none.
RefHex(session, k) ==
    IF k \notin DOMAIN session THEN ""
    ELSE IF session[k].t = "oid" THEN session[k].v
    ELSE IF session[k].t = "str" THEN session[k].v[1] ELSE ""

Unmatched(k, coll) ==
    {i \in DOMAIN store.sessions :
        \A j \in DOMAIN coll : coll[j]["_id"].v # RefHex(store.sessions[i], k)}

NullAt(f) == {i \in DOMAIN last.body : last.body[i][f] = Null}

\* C5: in every returned record CompanyName is the matched mentor's company,
\* else its name, else the label, and the label with a null mentor_id when no
\* mentor matches; startup_company is the matched startup's name, else its
\* company, else the label.
C5_DisplayNamePrecedence ==
    (last.endpoint = Detailed /\ last.status = 200) =>
        /\ \A i \in DOMAIN last.body :
              LET r == last.body[i] IN
              /\ r["mentor_id"] = Null => r["CompanyName"] = StrV("Compañía Mentor Desconocida")
              /\ r["startup_id"] = Null => r["startup_company"] = StrV("Startup Desconocida")
              /\ \A j \in DOMAIN store.mentorship :
                    r["mentor_id"] = StrV(store.mentorship[j]["_id"].v) =>
                        r["CompanyName"] = MentorShownAs(store.mentorship[j])
              /\ \A j \in DOMAIN store.startup :
                    r["startup_id"] = StrV(store.startup[j]["_id"].v) =>
                        r["startup_company"] = StartupShownAs(store.startup[j])
              /\ r["mentor_id"] # Null =>
                    \E j \in DOMAIN store.mentorship :
                        r["mentor_id"] = StrV(store.mentorship[j]["_id"].v)
              /\ r["startup_id"] # Null =>
                    \E j \in DOMAIN store.startup :
                        r["startup_id"] = StrV(store.startup[j]["_id"].v)
        /\ Cardinality(NullAt("mentor_id")) = Cardinality(Unmatched("mentor", store.mentorship))
        /\ Cardinality(NullAt("startup_id")) = Cardinality(Unmatched("startup", store.startup))

\* One record shows a mentor by its company and a startup by its name, both
\* having a company and a name; another has no mentor and shows the label.
C5_Witness ==
    /\ last.endpoint = Detailed
    /\ last.status = 200
    /\ \E i \in DOMAIN last.body :
          /\ last.body[i]["mentor_id"] = StrV(HexM1)
          /\ last.body[i]["CompanyName"] = StrV("Acme")
          /\ last.body[i]["startup_id"] = StrV(HexT1)
          /\ last.body[i]["startup_company"] = StrV("Rocket")
    /\ \E i \in DOMAIN last.body :
          /\ last.body[i]["mentor_id"] = Null
          /\ last.body[i]["CompanyName"] = StrV("Compañía Mentor Desconocida")

\* C6: the returned records are in descending order of the formatted date:
\* of two records with a date, the earlier in the list has no smaller text.
C6_SortedByDateTextDescending ==
    (last.endpoint = Detailed /\ last.status = 200) =>
        \A i, j \in DOMAIN last.body :
            (i < j /\ last.body[i]["date"] # Null /\ last.body[j]["date"] # Null) =>
                ~LexLess(last.body[i]["date"].v, last.body[j]["date"].v)

\* The store holds 2024-01-01 09:00:00 before 2024-01-02 10:00:00 and the
\* response has them the other way round.
C6_Witness ==
    /\ last.endpoint = Detailed
    /\ last.status = 200
    /\ Len(store.sessions) >= 2
    /\ PathOf(store.sessions[1], "date") = D1
    /\ PathOf(store.sessions[2], "date") = D2
    /\ \E i, j \in DOMAIN last.body :
          /\ i < j
          /\ last.body[i]["date"] = TextV(<<"2", "0", "2", "4", "-", "0", "1", "-", "0", "2",
                                            " ", "1", "0", ":", "0", "0", ":", "0", "0">>)
          /\ last.body[j]["date"] = TextV(<<"2", "0", "2", "4", "-", "0", "1", "-", "0", "1",
                                            " ", "0", "9", ":", "0", "0", ":", "0", "0">>)

\* C7: with the store in reach and no session, the export answers 404 and
\* sends no sheet; a sheet is sent only with at least one session, one row
\* each; 404 is given in no other case, 503 only without a handle.
C7_EmptyExportIs404 ==
    last.endpoint = Excel =>
        /\ (db = "set" /\ last.up /\ store.sessions = <<>>) =>
              (last.status = 404 /\ last.body = <<>>)
        /\ last.status = 404 => (db = "set" /\ last.up /\ store.sessions = <<>>)
        /\ last.status = 503 <=> db = "None"
        /\ last.status \in {200, 404, 500, 503}
        /\ last.status = 200 =>
              /\ store.sessions # <<>>
              /\ Len(last.body.rows) = Len(store.sessions)
              /\ Len(last.body.header) = 11
        /\ last.status # 200 => last.body = <<>>

\* The export was asked of a reachable store without sessions.
C7_Witness ==
    /\ last.endpoint = Excel
    /\ db = "set"
    /\ last.up
    /\ store.sessions = <<>>
    /\ last.status = 404

\* C8: when the store rejects the pipeline or one record does not validate,
\* /api/sessions/detailed answers 500 with no record; a 200 carries one
\* record for every session, never a part of them.
C8_AllOrNothing ==
    (last.endpoint = Detailed /\ db = "set") =>
        IF last.up /\ \A x \in Sessions : ~IllTyped(x) /\ ~HasInvalidRef(x)
        THEN last.status = 200 /\ Len(last.body) = Len(store.sessions)
        ELSE last.status = 500 /\ last.body = <<>>

\* One session validates and another has a duration that is no number.
C8_Witness ==
    /\ last.endpoint = Detailed
    /\ last.up
    /\ Len(store.sessions) = 2
    /\ ~IllTyped(store.sessions[1]) /\ ~HasInvalidRef(store.sessions[1])
    /\ PathOf(store.sessions[2], "date") = D2
    /\ PathOf(store.sessions[2], "duration") = StrV("abc")
    /\ last.status = 500
    /\ last.body = <<>>

\* C9 as stated: a request made when the connection was lost after a
\* successful startup is answered 503, before any query.
C9_LostConnectionAnswers503 ==
    (Requested /\ db = "set" /\ ~last.up) => (last.status = 503 /\ last.queried = {})

\* C9 as amended: 503 is the answer exactly when db is None, and then no
\* query is invoked; with db set and the store out of reach (dropped, or the
\* client closed by shutdown) the query is invoked and the answer is 500.
C9_Only503WithoutHandle ==
    Requested =>
        /\ last.status = 503 <=> db = "None"
        /\ db = "None" => last.queried = {}
        /\ (db = "set" /\ ~last.up) => (last.status = 500 /\ last.queried # {})

\* The startup list was asked after the connection dropped.
C9_Witness ==
    /\ last.endpoint = Startups
    /\ db = "set"
    /\ client = "open"
    /\ ~last.up
    /\ last.status = 500
    /\ last.queried = {<<"find", "startup">>}

====
